---- MODULE Spec2Model ----
(***************************************************************************)
(* A model of what-the-src's RPM ingest (src/ingest/rpm.rs) and of the     *)
(* read-side HTTP handlers (src/web.rs).                                   *)
(*                                                                         *)
(* Spec         one `ingest-rpm` run and its re-run on the same RPM:       *)
(*              writer, extractor (bsdtar) and consumer (read_routine)     *)
(*              interleave through two bounded pipes.                      *)
(* SpecClassify the filename classifier of read_routine as a function.     *)
(* SpecWeb      the artifact, sbom and diff handlers behind `rejection`.   *)
(* SpecSearch   the query the search handler hands to the database.        *)
(* SpecFiles    process_files_list under the toggles of the diff routes.   *)
(* SpecRender   render_archive on a files list.                            *)
(* SpecLive     one ingest run under fair scheduling.                      *)
(* SpecDrop     one ingest run whose future may be dropped.                *)
(* SpecStats    the stats handler and its two concurrent queries.          *)
(***************************************************************************)
EXTENDS Integers, Sequences, FiniteSets, TLC

VARIABLES
    rpm,        \* the tar entries the RPM payload holds, in stream order
    second,     \* FALSE in the first ingest of rpm, TRUE in the re-run
    mpc,        \* position of run/stream_data
    sdResult,   \* what stream_data returned
    runResult,  \* what run returned
    src,        \* source chunks the writer has not copied yet
    stdinBuf,   \* chunks in the extractor's stdin pipe
    stdinOpen,  \* the writer still holds the stdin handle
    wres,       \* the writer future: "running", "Ok", "Err"
    extRead,    \* chunks the extractor has read
    extEmitted, \* entries the extractor has written to stdout
    child,      \* the extractor process: Idle, Running or Exited(status)
    stdoutBuf,  \* entries in the extractor's stdout pipe
    cpc,        \* position of the consumer task (read_routine)
    nread,      \* entries read_routine has taken from the stream
    cur,        \* the entry read_routine is working on
    cres,       \* the consumer task: "running", "Ok", an error, "JoinError"
    refs,       \* table refs
    artifacts,  \* table artifacts: chksum -> row
    refLog,     \* insert_ref calls of this run, in call order
    tarLog,     \* inner tar ingests of this run, in call order
    waitRes,    \* child.wait(): "-", "Ok" or "Err"
    clock,      \* now()
    snap,       \* the store as the first run left it
    firstFail,  \* history: the activity that failed first in this run
    dropAt,     \* history: insert_ref calls made when the run was dropped
    fname,      \* SpecClassify: the filename classified
    fclass,     \* SpecClassify: its class
    srch,       \* SpecSearch: a search request and the query it issues
    flist,      \* SpecFiles: a files list through the diff handler
    rend,       \* SpecRender: a files list through render_archive
    stats,      \* SpecStats: the stats handler and its two queries
    web         \* SpecWeb: tables, request and handler position

ingestVars == <<rpm, second, mpc, sdResult, runResult, src, stdinBuf, stdinOpen,
                wres, extRead, extEmitted, child, stdoutBuf, cpc, nread, cur,
                cres, refs, artifacts, refLog, tarLog, waitRes, clock, snap,
                firstFail, dropAt>>
classifyVars == <<fname, fclass>>
pureVars == <<srch, flist, rend, stats>>
vars == <<ingestVars, classifyVars, web, pureVars>>

(*************************** bounds ****************************************)
MaxEntries == 2
PipeCap == 1
MaxParts == 3
NumChksums == 3

(*************************** strings ***************************************)
\* Strings are sequences of characters, so that suffix and prefix tests are
\* computed on the characters.
ends_with(s, suffix) ==
    /\ Len(suffix) <= Len(s)
    /\ SubSeq(s, Len(s) - Len(suffix) + 1, Len(s)) = suffix

starts_with(s, prefix) ==
    /\ Len(prefix) <= Len(s)
    /\ SubSeq(s, 1, Len(prefix)) = prefix

S_tar_gz == <<".", "t", "a", "r", ".", "g", "z">>
S_tgz == <<".", "t", "g", "z">>
S_crate == <<".", "c", "r", "a", "t", "e">>
S_tar_xz == <<".", "t", "a", "r", ".", "x", "z">>
S_tar_bz2 == <<".", "t", "a", "r", ".", "b", "z", "2">>
S_tar == <<".", "t", "a", "r">>
S_chromium == <<"c", "h", "r", "o", "m", "i", "u", "m", "-">>

(*************************** Option ****************************************)
None == [tag |-> "None"]
Some(v) == [tag |-> "Some", val |-> v]
\* the value of a block that ends in `;`
Unit == [tag |-> "Unit"]

(*************************** read_routine: classification ******************)
\* rpm.rs:45-58. The last branch is `None;`, a statement: the block yields
\* the unit value, not Option::None.
archive_w_compression(filename) ==
    IF \/ ends_with(filename, S_tar_gz)
       \/ ends_with(filename, S_tgz)
       \/ ends_with(filename, S_crate)
    THEN Some(Some("gz"))
    ELSE IF ends_with(filename, S_tar_xz) THEN Some(Some("xz"))
    ELSE IF ends_with(filename, S_tar_bz2) THEN Some(Some("bz2"))
    ELSE IF ends_with(filename, S_tar) THEN Some(None)
    ELSE Unit

\* rpm.rs:60-75: the arm of `match archive_w_compression` taken for a class.
\* Only Some(compression) and None have an arm; the unit value has none and
\* the entry gets no chksum.
match_arm(class) ==
    IF class.tag = "Some" THEN "recurse"
    ELSE IF class.tag = "None" THEN "hash"
    ELSE "dropped"

\* the deny-list forgotten: the handle is always handed on
tar_db_always(filename) == Some("db")

\* rpm.rs:63-67: the database handle handed to the inner tar ingest
tar_db(filename) ==
    IF starts_with(filename, S_chromium) THEN None ELSE Some("db")

(*************************** digests ***************************************)
\* The bytes of an entry body, and what a decompressor makes of them. A
\* plain .tar is not compressed: its tar stream is the body itself.
Body(b) == [kind |-> "body", c |-> "-", id |-> b]

Decompress(compression, bytes) ==
    IF compression.tag = "None" THEN bytes
    ELSE [kind |-> "tar", c |-> compression.val, id |-> bytes.id]

\* sha256 is injective on the modelled byte strings
Sha256(bytes) == [sha256 |-> bytes]

\* the files list the tar ingest records for a tar stream
FilesOf(stream) ==
    << [path |-> <<"a">>,
        digest |-> Some(Sha256([kind |-> "member", c |-> stream.c, id |-> stream.id])),
        links_to |-> None] >>

\* ingest::tar::stream_data(db, reader, compression): its Summary
tar_summary(bytes, compression) ==
    [outer_digests |-> [sha256 |-> Sha256(Decompress(compression, bytes))],
     files |-> FilesOf(Decompress(compression, bytes))]

(*************************** the store *************************************)
\* db.insert_ref: idempotent on the full tuple
insert_ref(table, r) == table \cup {r}

\* upsert of an Artifact row: first_seen set on create, files overwritten and
\* last_imported refreshed on every upsert
upsert_artifact(table, chksum, files, now) ==
    IF chksum \in DOMAIN table
    THEN [table EXCEPT ![chksum] = [@ EXCEPT !.files = files, !.last_imported = now]]
    ELSE table @@ (chksum :> [chksum |-> chksum, first_seen |-> now,
                              last_imported |-> now, files |-> files])

\* what ingest::tar::stream_data(db, ..) leaves in table artifacts
tar_persist(table, db, summary, now) ==
    IF db.tag = "Some"
    THEN upsert_artifact(table, summary.outer_digests.sha256, summary.files, now)
    ELSE table

Vendor == <<"f", "e", "d", "o", "r", "a">>
Package == <<"p", "k", "g">>
Version == <<"1", ".", "0">>

(*************************** read_routine: chksum and Ref ******************)
\* the digest of the first member in place of the digest of the archive
recurse_chksum_first_file(summary) == summary.files[1].digest.val

\* rpm.rs:69
recurse_chksum(summary) == summary.outer_digests.sha256

\* rpm.rs:72-73: Hasher::new(entry) drains the body
hash_chksum(bytes) == Sha256(bytes)

\* a Ref that carries the time of the import in its version
make_ref_stamped(chksum, vendor, package, version, filename) ==
    [chksum |-> chksum, vendor |-> vendor, package |-> package,
     version |-> Append(version, ToString(clock)), filename |-> Some(filename)]

\* rpm.rs:77-83
make_ref(chksum, vendor, package, version, filename) ==
    [chksum |-> chksum, vendor |-> vendor, package |-> package,
     version |-> version, filename |-> Some(filename)]

(*************************** results ***************************************)
NoResult == [tag |-> "-", status |-> 0, origin |-> "-"]
Ok == [tag |-> "Ok", status |-> 0, origin |-> "-"]
Err(kind, origin) == [tag |-> kind, status |-> 0, origin |-> origin]
ChildExit(status) == [tag |-> "ChildExit", status |-> status, origin |-> "child"]

\* a `reader?` that keeps the JoinError and discards the task's own result
reader_try_discards_inner(r) ==
    IF r = "JoinError" THEN Err("Join", "consumer") ELSE Ok

\* rpm.rs:121: `reader?` over Result<Result<()>, JoinError>
reader_try(r) ==
    IF r = "Ok" THEN Ok
    ELSE IF r = "JoinError" THEN Err("Join", "consumer")
    ELSE Err(r, "consumer")

\* stream_data without the check of the exit status
after_wait_no_status(waited, status, reader) ==
    IF ~waited THEN Err("Io", "wait") ELSE reader_try(reader)

\* stream_data with the check of the exit status inverted
after_wait_inverted(waited, status, reader) ==
    IF ~waited THEN Err("Io", "wait")
    ELSE IF status = 0 THEN ChildExit(status)
    ELSE reader_try(reader)

\* stream_data with `reader?` ahead of the check of the exit status
after_wait_reader_first(waited, status, reader) ==
    IF ~waited THEN Err("Io", "wait")
    ELSE IF reader # "Ok" THEN reader_try(reader)
    ELSE IF status # 0 THEN ChildExit(status)
    ELSE Ok

\* rpm.rs:116-121: what stream_data returns once the writer's copy succeeded
after_wait(waited, status, reader) ==
    IF ~waited THEN Err("Io", "wait")
    ELSE IF status # 0 THEN ChildExit(status)
    ELSE reader_try(reader)

(*************************** inputs ****************************************)
N_x_tar_gz == <<"x">> \o S_tar_gz
N_chromium_tar_xz == S_chromium \o <<"1">> \o S_tar_xz
N_README == <<"R", "E", "A", "D", "M", "E">>

\* path.file_name() is None, or is not UTF-8
NoFileName == <<>>

\* The entries an RPM payload is made of: two archives of the same name and
\* different content, a deny-listed archive, a file that is no archive, a
\* regular file without a usable filename, and a directory.
Entries ==
    {[type |-> "Regular", name |-> N_x_tar_gz, body |-> 1],
     [type |-> "Regular", name |-> N_x_tar_gz, body |-> 2],
     [type |-> "Regular", name |-> N_chromium_tar_xz, body |-> 1],
     [type |-> "Regular", name |-> N_README, body |-> 1],
     [type |-> "Regular", name |-> NoFileName, body |-> 1],
     [type |-> "Directory", name |-> <<"d">>, body |-> 0]}

Rpms == UNION {[1..n -> Entries] : n \in 0..MaxEntries}

Min(a, b) == IF a < b THEN a ELSE b

NoCur == [e |-> [type |-> "-", name |-> <<>>, body |-> 0], class |-> Unit,
          chksum |-> None]

Idle == [st |-> "idle", status |-> 0]
Running == [st |-> "running", status |-> 0]
Exited(status) == [st |-> "exited", status |-> status]

(*************************** Init ******************************************)
NotDropped == 0 - 1
webIdle == [pc |-> "idle"]
pureIdle == [pc |-> "idle"]
Unclassified == [done |-> FALSE, class |-> Unit, arm |-> "-", db |-> None]

InitIngest ==
    /\ rpm \in Rpms
    /\ second = FALSE
    /\ mpc = "init"
    /\ sdResult = NoResult
    /\ runResult = NoResult
    /\ src = 0
    /\ stdinBuf = 0
    /\ stdinOpen = FALSE
    /\ wres = "-"
    /\ extRead = 0
    /\ extEmitted = 0
    /\ child = Idle
    /\ stdoutBuf = <<>>
    /\ cpc = "-"
    /\ nread = 0
    /\ cur = NoCur
    /\ cres = "-"
    /\ refs = {}
    /\ artifacts = <<>>
    /\ refLog = <<>>
    /\ tarLog = <<>>
    /\ waitRes = "-"
    /\ clock = 0
    /\ snap = [taken |-> FALSE, firstOk |-> FALSE, refs |-> {}, artifacts |-> <<>>]
    /\ firstFail = "-"
    /\ dropAt = NotDropped

Init ==
    /\ InitIngest
    /\ fname = <<>>
    /\ fclass = Unclassified
    /\ srch = pureIdle
    /\ flist = pureIdle
    /\ rend = pureIdle
    /\ stats = pureIdle
    /\ web = webIdle

storeVars == <<refs, artifacts, refLog, tarLog, clock>>
writerVars == <<src, stdinOpen, wres>>
consumerVars == <<cpc, nread, cur, cres>>
mainVars == <<rpm, second, mpc, sdResult, runResult, waitRes, snap, dropAt>>
otherVars == <<classifyVars, web, pureVars>>

\* history: the first of the writer, the consumer and the extractor to fail
first_failure(failed, activity) ==
    firstFail' = IF failed /\ firstFail = "-" THEN activity ELSE firstFail

(*************************** run, stream_data ******************************)
\* rpm.rs:125-128: db::Client::create or fetch_or_open fails
RunSetupFail ==
    /\ UNCHANGED firstFail
    /\ mpc = "init"
    /\ \E kind \in {"Db", "Io"} :
        runResult' = Err(kind, "setup")
    /\ mpc' = "done"
    /\ UNCHANGED <<dropAt, rpm, second, sdResult, waitRes, snap, writerVars, consumerVars, storeVars,
                   stdinBuf, extRead, extEmitted, child, stdoutBuf, otherVars>>

\* rpm.rs:97-101: spawn fails
SpawnFail ==
    /\ UNCHANGED firstFail
    /\ mpc = "init"
    /\ sdResult' = Err("Io", "spawn")
    /\ mpc' = "returned"
    /\ UNCHANGED <<dropAt, rpm, second, runResult, waitRes, snap, writerVars, consumerVars, storeVars,
                   stdinBuf, extRead, extEmitted, child, stdoutBuf, otherVars>>

\* rpm.rs:97-114: the extractor is spawned, the consumer task is spawned and
\* the join starts polling the writer
Spawn ==
    /\ UNCHANGED firstFail
    /\ mpc = "init"
    /\ mpc' = "join"
    /\ child' = Running
    /\ src' = Len(rpm) + 1
    /\ stdinOpen' = TRUE
    /\ wres' = "running"
    /\ cpc' = "next"
    /\ cres' = "running"
    /\ UNCHANGED <<dropAt, rpm, second, sdResult, runResult, waitRes, snap, nread, cur, storeVars,
                   stdinBuf, extRead, extEmitted, stdoutBuf, otherVars>>

\* a join that looks at the consumer's result before the writer's
Join_reader_first ==
    /\ UNCHANGED firstFail
    /\ mpc = "join"
    /\ wres # "running"
    /\ cres # "running"
    /\ IF cres # "Ok"
       THEN /\ sdResult' = reader_try(cres)
            /\ mpc' = "returned"
       ELSE IF wres = "Err"
       THEN /\ sdResult' = Err("Io", "writer")
            /\ mpc' = "returned"
       ELSE /\ sdResult' = sdResult
            /\ mpc' = "wait"
    /\ UNCHANGED <<dropAt, rpm, second, runResult, waitRes, snap, writerVars, consumerVars, storeVars,
                   stdinBuf, extRead, extEmitted, child, stdoutBuf, otherVars>>

\* rpm.rs:114-115: both joined; `writer?`
Join ==
    /\ UNCHANGED firstFail
    /\ mpc = "join"
    /\ wres # "running"
    /\ cres # "running"
    /\ IF wres = "Err"
       THEN /\ sdResult' = Err("Io", "writer")
            /\ mpc' = "returned"
       ELSE /\ sdResult' = sdResult
            /\ mpc' = "wait"
    /\ UNCHANGED <<dropAt, rpm, second, runResult, waitRes, snap, writerVars, consumerVars, storeVars,
                   stdinBuf, extRead, extEmitted, child, stdoutBuf, otherVars>>

\* rpm.rs:116-121: child.wait(), the status check and `reader?`
Wait ==
    /\ mpc = "wait"
    /\ child.st = "exited"
    /\ \E waited \in BOOLEAN :
        /\ waitRes' = IF waited THEN "Ok" ELSE "Err"
        /\ first_failure(~waited, "child")
        /\ sdResult' = after_wait(waited, child.status, cres)
    /\ mpc' = "returned"
    /\ UNCHANGED <<dropAt, rpm, second, runResult, snap, writerVars, consumerVars, storeVars,
                   stdinBuf, extRead, extEmitted, child, stdoutBuf, otherVars>>

\* rpm.rs:129-138: `stream_data(..).await?; Ok(())`
RunReturn ==
    /\ UNCHANGED firstFail
    /\ mpc = "returned"
    /\ runResult' = IF sdResult = Ok THEN Ok ELSE sdResult
    /\ mpc' = "done"
    /\ UNCHANGED <<dropAt, rpm, second, sdResult, waitRes, snap, writerVars, consumerVars, storeVars,
                   stdinBuf, extRead, extEmitted, child, stdoutBuf, otherVars>>

\* the same RPM is ingested again, with the same vendor, package and version
Rerun ==
    /\ mpc = "done"
    /\ ~second
    /\ second' = TRUE
    /\ snap' = [taken |-> TRUE, firstOk |-> (runResult = Ok),
                refs |-> refs, artifacts |-> artifacts]
    /\ mpc' = "init"
    /\ sdResult' = NoResult
    /\ runResult' = NoResult
    /\ src' = 0
    /\ stdinBuf' = 0
    /\ stdinOpen' = FALSE
    /\ wres' = "-"
    /\ extRead' = 0
    /\ extEmitted' = 0
    /\ child' = Idle
    /\ stdoutBuf' = <<>>
    /\ cpc' = "-"
    /\ nread' = 0
    /\ cur' = NoCur
    /\ cres' = "-"
    /\ refLog' = <<>>
    /\ tarLog' = <<>>
    /\ waitRes' = "-"
    /\ firstFail' = "-"
    /\ UNCHANGED <<dropAt, rpm, refs, artifacts, clock, otherVars>>

(*************************** the writer ************************************)
\* a writer that ends without dropping stdin
writer_done_keeps_stdin(r) ==
    /\ wres' = r
    /\ stdinOpen' = stdinOpen
    /\ first_failure(r # "Ok", "writer")

\* rpm.rs:104-108: the copy ends with result r and stdin is dropped
writer_done(r) ==
    /\ wres' = r
    /\ stdinOpen' = FALSE
    /\ first_failure(r # "Ok", "writer")

\* the writer awaited only after the consumer task, not joined with it
writer_polled_after_reader == mpc = "join" /\ cres # "running"

\* rpm.rs:114: the join polls the writer future while it waits for both
writer_polled == mpc = "join"

\* io::copy moves one chunk into the pipe
WriterCopy ==
    /\ UNCHANGED firstFail
    /\ writer_polled
    /\ wres = "running"
    /\ src > 0
    /\ child.st = "running"
    /\ stdinBuf < PipeCap
    /\ src' = src - 1
    /\ stdinBuf' = stdinBuf + 1
    /\ UNCHANGED <<stdinOpen, wres, mainVars, consumerVars, storeVars,
                   extRead, extEmitted, child, stdoutBuf, otherVars>>

\* io::copy reaches the end of the source
WriterEof ==
    /\ writer_polled
    /\ wres = "running"
    /\ src = 0
    /\ writer_done("Ok")
    /\ UNCHANGED <<src, stdinBuf, mainVars, consumerVars, storeVars,
                   extRead, extEmitted, child, stdoutBuf, otherVars>>

\* io::copy fails: reading the source fails, or the pipe is broken because
\* the extractor has exited
WriterFail ==
    /\ writer_polled
    /\ wres = "running"
    /\ src > 0
    /\ writer_done("Err")
    /\ UNCHANGED <<src, stdinBuf, mainVars, consumerVars, storeVars,
                   extRead, extEmitted, child, stdoutBuf, otherVars>>

(*************************** the extractor: bsdtar -c @- *******************)
\* Chunk i of the source carries entry i of the payload; the last chunk is
\* the end of the archive.
extPending == extEmitted < Min(extRead, Len(rpm))

ExtRead ==
    /\ UNCHANGED firstFail
    /\ child.st = "running"
    /\ ~extPending
    /\ stdinBuf > 0
    /\ stdinBuf' = stdinBuf - 1
    /\ extRead' = extRead + 1
    /\ UNCHANGED <<mainVars, writerVars, consumerVars, storeVars,
                   extEmitted, child, stdoutBuf, otherVars>>

\* writes the next entry to stdout, while the consumer holds the read end
ExtWrite ==
    /\ UNCHANGED firstFail
    /\ child.st = "running"
    /\ extPending
    /\ cres = "running"
    /\ Len(stdoutBuf) < PipeCap
    /\ stdoutBuf' = Append(stdoutBuf, rpm[extEmitted + 1])
    /\ extEmitted' = extEmitted + 1
    /\ UNCHANGED <<mainVars, writerVars, consumerVars, storeVars,
                   stdinBuf, extRead, child, otherVars>>

\* the whole archive was read and written out
ExtFinish ==
    /\ UNCHANGED firstFail
    /\ child.st = "running"
    /\ extRead = Len(rpm) + 1
    /\ extEmitted = Len(rpm)
    /\ child' = Exited(0)
    /\ UNCHANGED <<mainVars, writerVars, consumerVars, storeVars,
                   stdinBuf, extRead, extEmitted, stdoutBuf, otherVars>>

\* stdout's read end is gone (the consumer task has ended): the write fails
ExtBrokenPipe ==
    /\ child.st = "running"
    /\ extPending
    /\ cres # "running"
    /\ child' = Exited(1)
    /\ first_failure(TRUE, "child")
    /\ UNCHANGED <<mainVars, writerVars, consumerVars, storeVars,
                   stdinBuf, extRead, extEmitted, stdoutBuf, otherVars>>

\* stdin ends before the end of the archive
ExtTruncated ==
    /\ child.st = "running"
    /\ ~extPending
    /\ stdinBuf = 0
    /\ ~stdinOpen
    /\ extRead < Len(rpm) + 1
    /\ child' = Exited(1)
    /\ first_failure(TRUE, "child")
    /\ UNCHANGED <<mainVars, writerVars, consumerVars, storeVars,
                   stdinBuf, extRead, extEmitted, stdoutBuf, otherVars>>

\* the extractor gives up at any point: a payload it cannot read, a signal
ExtCrash ==
    /\ child.st = "running"
    /\ child' = Exited(2)
    /\ first_failure(TRUE, "child")
    /\ UNCHANGED <<mainVars, writerVars, consumerVars, storeVars,
                   stdinBuf, extRead, extEmitted, stdoutBuf, otherVars>>

(*************************** the consumer: read_routine ********************)
\* the task ends with result r; its stdout handle is dropped with it
consumer_done(r) ==
    /\ cres' = r
    /\ cpc' = "done"
    /\ first_failure(r # "Ok", "consumer")

\* rpm.rs:24-58: the next entry, its type, its filename and its class
ConsumerTake ==
    /\ UNCHANGED firstFail
    /\ cres = "running"
    /\ cpc = "next"
    /\ stdoutBuf # <<>>
    /\ LET e == Head(stdoutBuf)
           class == archive_w_compression(e.name)
       IN  /\ stdoutBuf' = Tail(stdoutBuf)
           /\ nread' = nread + 1
           /\ IF e.type # "Regular" \/ e.name = NoFileName
              THEN /\ cur' = NoCur
                   /\ cpc' = "next"
              ELSE IF match_arm(class) = "dropped"
              THEN /\ cur' = NoCur
                   /\ cpc' = "next"
              ELSE /\ cur' = [e |-> e, class |-> class, chksum |-> None]
                   /\ cpc' = "chksum"
    /\ UNCHANGED <<cres, mainVars, writerVars, storeVars,
                   stdinBuf, extRead, extEmitted, child, otherVars>>

\* rpm.rs:24-27: `entry?` or `entry.path()?` fails on what the stream holds
ConsumerEntryErr ==
    /\ cres = "running"
    /\ cpc = "next"
    /\ stdoutBuf # <<>>
    /\ consumer_done("InputMalformed")
    /\ UNCHANGED <<nread, cur, mainVars, writerVars, storeVars,
                   stdinBuf, extRead, extEmitted, child, stdoutBuf, otherVars>>

\* rpm.rs:24, 87: the stream ends. After a clean exit of the extractor the
\* stream ends at the end of the archive; after a failed one it may end at an
\* entry boundary (the loop ends) or inside an entry (an error).
ConsumerEnd ==
    /\ cres = "running"
    /\ cpc = "next"
    /\ stdoutBuf = <<>>
    /\ child.st = "exited"
    /\ \E clean \in (IF child.status = 0 THEN {TRUE} ELSE BOOLEAN) :
        consumer_done(IF clean THEN "Ok" ELSE "InputMalformed")
    /\ UNCHANGED <<nread, cur, mainVars, writerVars, storeVars,
                   stdinBuf, extRead, extEmitted, child, stdoutBuf, otherVars>>

\* a read_routine that goes on to the next entry without inserting the Ref
ConsumerChksum_skips_insert ==
    /\ cres = "running"
    /\ cpc = "chksum"
    /\ \E ok \in BOOLEAN :
        IF ~ok
        THEN /\ consumer_done("Io")
             /\ UNCHANGED <<cur, artifacts, tarLog, clock>>
        ELSE IF match_arm(cur.class) = "recurse"
        THEN LET db == tar_db(cur.e.name)
                 summary == tar_summary(Body(cur.e.body), cur.class.val)
             IN  /\ artifacts' = tar_persist(artifacts, db, summary, clock + 1)
                 /\ clock' = clock + 1
                 /\ tarLog' = Append(tarLog,
                        [idx |-> nread, db |-> db.tag,
                         chksum |-> summary.outer_digests.sha256,
                         wrote |-> (artifacts' # artifacts)])
                 /\ cur' = [cur EXCEPT !.chksum = Some(recurse_chksum(summary))]
                 /\ cpc' = "next"
                 /\ cres' = cres
                 /\ UNCHANGED firstFail
        ELSE /\ cur' = [cur EXCEPT !.chksum = Some(hash_chksum(Body(cur.e.body)))]
             /\ cpc' = "next"
             /\ cres' = cres
             /\ UNCHANGED firstFail
             /\ UNCHANGED <<artifacts, tarLog, clock>>
    /\ UNCHANGED <<nread, refs, refLog, mainVars, writerVars,
                   stdinBuf, extRead, extEmitted, child, stdoutBuf, otherVars>>

\* a read_routine that swallows a failed ingest and inserts a Ref all the same
ConsumerChksum_ignores_failure ==
    /\ cres = "running"
    /\ cpc = "chksum"
    /\ \E ok \in BOOLEAN :
        IF ~ok
        THEN /\ cur' = [cur EXCEPT !.chksum = Some(hash_chksum(Body(0)))]
             /\ UNCHANGED <<artifacts, tarLog, clock>>
        ELSE LET db == tar_db(cur.e.name)
                 summary == tar_summary(Body(cur.e.body), cur.class.val)
             IN  /\ artifacts' = tar_persist(artifacts, db, summary, clock + 1)
                 /\ clock' = clock + 1
                 /\ tarLog' = Append(tarLog,
                        [idx |-> nread, db |-> db.tag,
                         chksum |-> summary.outer_digests.sha256,
                         wrote |-> (artifacts' # artifacts)])
                 /\ cur' = [cur EXCEPT !.chksum = Some(recurse_chksum(summary))]
    /\ cpc' = "insert"
    /\ UNCHANGED <<cres, firstFail, nread, refs, refLog, mainVars, writerVars,
                   stdinBuf, extRead, extEmitted, child, stdoutBuf, otherVars>>

\* rpm.rs:60-75: the chksum of the entry, by the arm of the match
ConsumerChksum ==
    /\ cres = "running"
    /\ cpc = "chksum"
    /\ \E ok \in BOOLEAN :
        IF ~ok
        THEN /\ consumer_done("Io")
             /\ UNCHANGED <<cur, artifacts, tarLog, clock>>
        ELSE IF match_arm(cur.class) = "recurse"
        THEN LET db == tar_db(cur.e.name)
                 summary == tar_summary(Body(cur.e.body), cur.class.val)
             IN  /\ artifacts' = tar_persist(artifacts, db, summary, clock + 1)
                 /\ clock' = clock + 1
                 /\ tarLog' = Append(tarLog,
                        [idx |-> nread, db |-> db.tag,
                         chksum |-> summary.outer_digests.sha256,
                         wrote |-> (artifacts' # artifacts)])
                 /\ cur' = [cur EXCEPT !.chksum = Some(recurse_chksum(summary))]
                 /\ cpc' = "insert"
                 /\ cres' = cres
                 /\ UNCHANGED firstFail
        ELSE /\ cur' = [cur EXCEPT !.chksum = Some(hash_chksum(Body(cur.e.body)))]
             /\ cpc' = "insert"
             /\ cres' = cres
             /\ UNCHANGED firstFail
             /\ UNCHANGED <<artifacts, tarLog, clock>>
    /\ UNCHANGED <<nread, refs, refLog, mainVars, writerVars,
                   stdinBuf, extRead, extEmitted, child, stdoutBuf, otherVars>>

\* rpm.rs:77-85: the Ref is built and inserted
ConsumerInsertRef ==
    /\ cres = "running"
    /\ cpc = "insert"
    /\ \E ok \in BOOLEAN :
        IF ok
        THEN LET r == make_ref(cur.chksum.val, Vendor, Package, Version, cur.e.name)
             IN  /\ refs' = insert_ref(refs, r)
                 /\ refLog' = Append(refLog, [idx |-> nread, ref |-> r])
                 /\ cpc' = "next"
                 /\ cres' = cres
                 /\ UNCHANGED firstFail
        ELSE /\ consumer_done("Db")
             /\ UNCHANGED <<refs, refLog>>
    /\ cur' = NoCur
    /\ UNCHANGED <<nread, artifacts, tarLog, clock, mainVars, writerVars,
                   stdinBuf, extRead, extEmitted, child, stdoutBuf, otherVars>>

\* the task panics: the join yields a JoinError
ConsumerPanic ==
    /\ cres = "running"
    /\ consumer_done("JoinError")
    /\ UNCHANGED <<nread, cur, mainVars, writerVars, storeVars,
                   stdinBuf, extRead, extEmitted, child, stdoutBuf, otherVars>>

(*************************** the ingest specification **********************)
Next ==
    \/ RunSetupFail
    \/ SpawnFail
    \/ Spawn
    \/ Join
    \/ Wait
    \/ RunReturn
    \/ Rerun
    \/ WriterCopy
    \/ WriterEof
    \/ WriterFail
    \/ ExtRead
    \/ ExtWrite
    \/ ExtFinish
    \/ ExtBrokenPipe
    \/ ExtTruncated
    \/ ExtCrash
    \/ ConsumerTake
    \/ ConsumerEntryErr
    \/ ConsumerEnd
    \/ ConsumerChksum
    \/ ConsumerInsertRef
    \/ ConsumerPanic

Spec == Init /\ [][Next]_vars

(*************************** claims: the three-way join ********************)
\* stream_data has returned (spawned or not)
Returned == mpc \in {"returned", "done"} /\ sdResult # NoResult

AllThreeOk ==
    /\ wres = "Ok"
    /\ cres = "Ok"
    /\ waitRes = "Ok"
    /\ child = Exited(0)

\* C1: stream_data returns success if and only if the writer's copy
\* succeeded, the consumer returned Ok and the extractor was waited for and
\* exited with status 0; run returns what stream_data returned.
C1_SuccessIffAllThree ==
    /\ Returned => (sdResult = Ok <=> AllThreeOk)
    /\ (mpc = "done" /\ sdResult # NoResult) => runResult = sdResult
    /\ (mpc = "done" /\ sdResult = NoResult) => runResult.tag \in {"Db", "Io"}

C1_Witness ==
    /\ mpc = "done"
    /\ runResult = Ok
    /\ AllThreeOk
    /\ Len(rpm) = MaxEntries
    /\ refLog # <<>>

\* what the consumer committed in this run is in the store
CommittedStays ==
    /\ \A k \in 1..Len(refLog) : refLog[k].ref \in refs
    /\ \A k \in 1..Len(tarLog) :
        tarLog[k].wrote => tarLog[k].chksum \in DOMAIN artifacts

C2_NoCommitOnChildExit ==
    (Returned /\ sdResult.tag = "ChildExit") => refLog = <<>>

Parts == {<<"x">>, S_tar, <<".", "g", "z">>, <<".", "x", "z">>,
          <<".", "b", "z", "2">>, S_tgz, S_crate, S_chromium}

RECURSIVE Concat(_)
Concat(ps) == IF ps = <<>> THEN <<>> ELSE Head(ps) \o Concat(Tail(ps))

\* every filename made of one to MaxParts parts
ClassifyNames == {Concat(ps) : ps \in UNION {[1..n -> Parts] : n \in 1..MaxParts}}

InitClassify ==
    /\ fname \in ClassifyNames
    /\ fclass = Unclassified
    /\ srch = pureIdle
    /\ flist = pureIdle
    /\ rend = pureIdle
    /\ stats = pureIdle
    /\ web = webIdle
    /\ rpm = <<>>
    /\ second = FALSE
    /\ mpc = "-"
    /\ sdResult = NoResult
    /\ runResult = NoResult
    /\ src = 0
    /\ stdinBuf = 0
    /\ stdinOpen = FALSE
    /\ wres = "-"
    /\ extRead = 0
    /\ extEmitted = 0
    /\ child = Idle
    /\ stdoutBuf = <<>>
    /\ cpc = "-"
    /\ nread = 0
    /\ cur = NoCur
    /\ cres = "-"
    /\ refs = {}
    /\ artifacts = <<>>
    /\ refLog = <<>>
    /\ tarLog = <<>>
    /\ waitRes = "-"
    /\ clock = 0
    /\ snap = [taken |-> FALSE, firstOk |-> FALSE, refs |-> {}, artifacts |-> <<>>]
    /\ firstFail = "-"
    /\ dropAt = NotDropped

\* rpm.rs:45-67 on one filename
Classify ==
    /\ ~fclass.done
    /\ LET class == archive_w_compression(fname)
       IN  fclass' = [done |-> TRUE, class |-> class, arm |-> match_arm(class),
                      db |-> tar_db(fname)]
    /\ UNCHANGED <<fname, web, ingestVars, pureVars>>

NextClassify == Classify

SpecClassify == InitClassify /\ [][NextClassify]_vars

(*************************** claims: read_routine **************************)
RefsOf(i) == {k \in 1..Len(refLog) : refLog[k].idx = i}
TarsOf(i) == {k \in 1..Len(tarLog) : tarLog[k].idx = i}

HasFileName(e) == e.type = "Regular" /\ e.name # NoFileName

\* C4: in a successful run of read_routine every regular-file entry of the
\* stream (with a usable filename) has produced exactly one insert_ref, with
\* the given vendor, package and version and the entry's filename, and every
\* non-regular entry has produced none.
C4_OneRefPerRegularEntry ==
    cres = "Ok" =>
        \A i \in 1..nread :
            /\ HasFileName(rpm[i]) =>
                /\ Cardinality(RefsOf(i)) = 1
                /\ \A k \in RefsOf(i) :
                    /\ refLog[k].ref.vendor = Vendor
                    /\ refLog[k].ref.package = Package
                    /\ refLog[k].ref.version = Version
                    /\ refLog[k].ref.filename = Some(rpm[i].name)
            /\ rpm[i].type # "Regular" => RefsOf(i) = {}

\* the table of the specification: suffix -> action and compression
table_action(filename) ==
    IF \/ ends_with(filename, S_tar_gz)
       \/ ends_with(filename, S_tgz)
       \/ ends_with(filename, S_crate)
    THEN [action |-> "recurse", compression |-> "gz"]
    ELSE IF ends_with(filename, S_tar_xz)
    THEN [action |-> "recurse", compression |-> "xz"]
    ELSE IF ends_with(filename, S_tar_bz2)
    THEN [action |-> "recurse", compression |-> "bz2"]
    ELSE IF ends_with(filename, S_tar)
    THEN [action |-> "recurse", compression |-> "none"]
    ELSE [action |-> "hash", compression |-> "-"]

\* what read_routine has decided for the classified filename
decided ==
    [action |-> fclass.arm,
     compression |-> IF fclass.class.tag # "Some" THEN "-"
                     ELSE IF fclass.class.val.tag = "Some" THEN fclass.class.val.val
                     ELSE "none"]

\* C5: for every filename read_routine takes the action of the table, a name
\* without an archive suffix being hashed as a blob, and a name ending in
\* .tar.gz, .tar.xz or .tar.bz2 is never classified by the plain .tar rule.
C5_ActionByTable ==
    fclass.done =>
        /\ decided = table_action(fname)
        /\ (\/ ends_with(fname, S_tar_gz)
            \/ ends_with(fname, S_tar_xz)
            \/ ends_with(fname, S_tar_bz2)) => decided.compression # "none"

\* the rows of the table that name a suffix are taken as the table says
C5_ArchiveRowsAgree ==
    (fclass.done /\ table_action(fname).action = "recurse") =>
        decided = table_action(fname)

IsChromium(e) == starts_with(e.name, S_chromium)

\* C6: the inner tar ingest of an archive entry whose filename starts with
\* chromium- is invoked without the database handle and writes no Artifact
\* row, its digest is still computed and exactly one Ref with that digest is
\* inserted; every other inner tar ingest is invoked with the handle and
\* writes the row.
C6_DenyListNoArtifact ==
    /\ \A k \in 1..Len(tarLog) :
        LET t == tarLog[k]
            e == rpm[t.idx]
        IN  /\ IsChromium(e) =>
                /\ t.db = "None"
                /\ ~t.wrote
                /\ t.chksum = Sha256(Decompress(archive_w_compression(e.name).val,
                                                Body(e.body)))
            /\ ~IsChromium(e) =>
                /\ t.db = "Some"
                /\ t.wrote
                /\ t.chksum \in DOMAIN artifacts
    /\ \A k \in 1..Len(refLog) :
        LET i == refLog[k].idx
        IN  IsChromium(rpm[i]) =>
                /\ RefsOf(i) = {k}
                /\ \E j \in TarsOf(i) : tarLog[j].chksum = refLog[k].ref.chksum
    /\ cres = "Ok" =>
        \A i \in 1..nread :
            (HasFileName(rpm[i]) /\ IsChromium(rpm[i])) =>
                Cardinality(RefsOf(i)) = 1 /\ Cardinality(TarsOf(i)) = 1

C6_Witness ==
    /\ cres = "Ok"
    /\ \E k \in 1..Len(refLog) :
        /\ IsChromium(rpm[refLog[k].idx])
        /\ refLog[k].ref \in refs
        /\ refLog[k].ref.chksum \notin DOMAIN artifacts
    /\ \E j \in 1..Len(tarLog) : tarLog[j].wrote

SameButLastImported(a, b) ==
    /\ DOMAIN a = DOMAIN b
    /\ \A c \in DOMAIN a :
        /\ a[c].chksum = b[c].chksum
        /\ a[c].files = b[c].files
        /\ a[c].first_seen = b[c].first_seen

\* C7: after a first ingest that returned success, a second ingest of the
\* same RPM with the same vendor, package and version leaves the set of Refs
\* and the Artifacts (their files included) as the first run left them: every
\* insert_ref of the second run is a no-op, only last_imported may change.
C7_ReingestIdempotent ==
    (second /\ snap.firstOk) =>
        /\ refs = snap.refs
        /\ SameButLastImported(artifacts, snap.artifacts)
        /\ \A k \in 1..Len(refLog) : refLog[k].ref \in snap.refs

C7_Witness ==
    /\ second
    /\ snap.firstOk
    /\ mpc = "done"
    /\ runResult = Ok
    /\ Len(refLog) = MaxEntries
    /\ \E c \in DOMAIN artifacts :
        artifacts[c].last_imported > snap.artifacts[c].last_imported

S_json == <<".", "j", "s", "o", "n">>
S_txt == <<".", "t", "x", "t">>

\* str::strip_suffix
strip_suffix(s, suffix) ==
    IF ends_with(s, suffix) THEN Some(SubSeq(s, 1, Len(s) - Len(suffix))) ELSE None

Chksums == {<<ToString(i)>> : i \in 1..NumChksums}

\* table aliases: chksum -> alias_to, or no row; chains and cycles included
AliasTables == [Chksums -> {Some(c) : c \in Chksums} \cup {None}]

\* db.get_artifact_alias: the row of table aliases, if any
get_artifact_alias(table, chksum) ==
    IF chksum \in DOMAIN table /\ table[chksum].tag = "Some"
    THEN Some([alias_from |-> chksum, alias_to |-> table[chksum].val])
    ELSE None

\* db.get_artifact: the row of table artifacts, if any
get_artifact(rows, chksum) ==
    IF chksum \in rows THEN Some([chksum |-> chksum]) ELSE None

\* the alias followed as long as there is one, two hops at most
resolved_chksum_two_hops(tables, alias, chksum) ==
    IF alias.tag # "Some" THEN chksum
    ELSE IF get_artifact_alias(tables, alias.val.alias_to).tag = "Some"
    THEN get_artifact_alias(tables, alias.val.alias_to).val.alias_to
    ELSE alias.val.alias_to

\* web.rs:122-125
resolved_chksum(tables, alias, chksum) ==
    IF alias.tag = "Some" THEN alias.val.alias_to ELSE chksum

\* db.resolve_artifact: one alias hop, then the Artifact or none
resolve_artifact(table, rows, chksum) ==
    get_artifact(rows, resolved_chksum(table, get_artifact_alias(table, chksum), chksum))

\* a rejection: reject::not_found(), or the custom rejection `?` makes of an Error
NotFound == [reason |-> "NotFound", error |-> "-"]
Custom(error) == [reason |-> "Other", error |-> error]

\* the rejection a handler returns for a failure: `return Err(reject::not_found())`
\* for a lookup that found nothing, `?` for every Error
reject_for(failure) ==
    IF failure = "missing" THEN NotFound ELSE Custom(failure)

\* warp's Rejection::combine, as `a.or(b)` applies it
combine(a, b) ==
    IF a.reason = "NotFound" THEN b ELSE a

Routes == <<"index", "artifact", "sbom", "search", "stats", "diff",
            "diff-sorted", "diff-sorted-trimmed", "style">>

\* web.rs:423-434: every route is tried; a route of another path rejects with
\* not-found, the route of the request with the handler's rejection
RECURSIVE combine_routes(_, _, _)
combine_routes(i, route, rej) ==
    IF i > Len(Routes) THEN NotFound
    ELSE combine(IF Routes[i] = route THEN rej ELSE NotFound,
                 combine_routes(i + 1, route, rej))

\* a recover that answers every rejection with 404
rejection_always_404(err) ==
    [status |-> 404, body |-> "404 - file not found\n"]

\* web.rs:329-343
rejection(err) ==
    IF err.reason = "NotFound"
    THEN [status |-> 404, body |-> "404 - file not found\n"]
    ELSE [status |-> 500, body |-> "server error\n"]

DiffRoutes == {"diff", "diff-sorted", "diff-sorted-trimmed"}

Requests ==
    [route : {"artifact"}, p1 : Chksums \cup {c \o S_json : c \in Chksums}, p2 : {<<>>}]
    \cup [route : {"sbom"}, p1 : {<<"1">>, <<"1">> \o S_txt}, p2 : {<<>>}]
    \cup [route : DiffRoutes, p1 : Chksums, p2 : Chksums]

NoResp == [status |-> 0, body |-> "-"]

webStart(table, rows, rq) ==
    [aliases |-> table, rows |-> rows, req |-> rq, pc |-> "start",
     chksum |-> <<>>, flag |-> FALSE, alias |-> None, resolved |-> <<>>,
     found |-> None, aliasLookups |-> 0, artLookups |-> 0,
     failure |-> "-", rej |-> NotFound, resp |-> NoResp]

InitWeb ==
    /\ web \in {webStart(t, r, q) : t \in AliasTables, r \in SUBSET Chksums,
                                    q \in Requests}
    /\ fname = <<>>
    /\ fclass = Unclassified
    /\ srch = pureIdle
    /\ flist = pureIdle
    /\ rend = pureIdle
    /\ stats = pureIdle
    /\ rpm = <<>>
    /\ second = FALSE
    /\ mpc = "-"
    /\ sdResult = NoResult
    /\ runResult = NoResult
    /\ src = 0
    /\ stdinBuf = 0
    /\ stdinOpen = FALSE
    /\ wres = "-"
    /\ extRead = 0
    /\ extEmitted = 0
    /\ child = Idle
    /\ stdoutBuf = <<>>
    /\ cpc = "-"
    /\ nread = 0
    /\ cur = NoCur
    /\ cres = "-"
    /\ refs = {}
    /\ artifacts = <<>>
    /\ refLog = <<>>
    /\ tarLog = <<>>
    /\ waitRes = "-"
    /\ clock = 0
    /\ snap = [taken |-> FALSE, firstOk |-> FALSE, refs |-> {}, artifacts |-> <<>>]
    /\ firstFail = "-"
    /\ dropAt = NotDropped

\* the handler returns Err(rejection) for a failure
handler_fails(failure) ==
    web' = [web EXCEPT !.pc = "rejected", !.failure = failure,
                       !.rej = reject_for(failure)]

handler_replies ==
    web' = [web EXCEPT !.pc = "done", !.failure = "none",
                       !.resp = [status |-> 200, body |-> "reply"]]

\* web.rs:115-120: the suffix is stripped and the alias is looked up
ArtifactAlias ==
    /\ web.pc = "start"
    /\ web.req.route = "artifact"
    /\ LET stripped == strip_suffix(web.req.p1, S_json)
           chksum == IF stripped.tag = "Some" THEN stripped.val ELSE web.req.p1
       IN  \E dbok \in BOOLEAN :
            web' = IF dbok
                   THEN [web EXCEPT !.pc = "get", !.chksum = chksum,
                                    !.flag = (stripped.tag = "Some"),
                                    !.aliasLookups = @ + 1,
                                    !.alias = get_artifact_alias(web.aliases, chksum)]
                   ELSE [web EXCEPT !.pc = "rejected", !.chksum = chksum,
                                    !.aliasLookups = @ + 1,
                                    !.failure = "db", !.rej = reject_for("db")]
    /\ UNCHANGED <<ingestVars, classifyVars, pureVars>>

\* web.rs:122-128: the artifact under the resolved chksum
ArtifactGet ==
    /\ web.pc = "get"
    /\ LET resolved == resolved_chksum(web.aliases, web.alias, web.chksum)
           found == get_artifact(web.rows, resolved)
       IN  \E dbok \in BOOLEAN :
            web' = IF ~dbok
                   THEN [web EXCEPT !.pc = "rejected", !.resolved = resolved,
                                    !.artLookups = @ + 1,
                                    !.failure = "db", !.rej = reject_for("db")]
                   ELSE IF found.tag = "None"
                   THEN [web EXCEPT !.pc = "rejected", !.resolved = resolved,
                                    !.artLookups = @ + 1,
                                    !.failure = "missing",
                                    !.rej = reject_for("missing")]
                   ELSE [web EXCEPT !.pc = "render", !.resolved = resolved,
                                    !.artLookups = @ + 1, !.found = found]
    /\ UNCHANGED <<ingestVars, classifyVars, pureVars>>

\* web.rs:130-158: sbom refs, then the JSON reply, or the refs, the rendered
\* files, detect_autotools and the page
ArtifactReply ==
    /\ web.pc = "render"
    /\ web.req.route = "artifact"
    /\ \E outcome \in (IF web.flag THEN {"ok", "db"}
                       ELSE {"ok", "db", "template", "serde"}) :
        IF outcome = "ok" THEN handler_replies ELSE handler_fails(outcome)
    /\ UNCHANGED <<ingestVars, classifyVars, pureVars>>

\* web.rs:166-173: the suffix is stripped and the SBOM is looked up
SbomGet ==
    /\ web.pc = "start"
    /\ web.req.route = "sbom"
    /\ LET stripped == strip_suffix(web.req.p1, S_txt)
           chksum == IF stripped.tag = "Some" THEN stripped.val ELSE web.req.p1
       IN  \E got \in {"db", "missing", "some"} :
            web' = IF got = "some"
                   THEN [web EXCEPT !.pc = "render", !.chksum = chksum,
                                    !.flag = (stripped.tag = "Some")]
                   ELSE [web EXCEPT !.pc = "rejected", !.chksum = chksum,
                                    !.failure = got, !.rej = reject_for(got)]
    /\ UNCHANGED <<ingestVars, classifyVars, pureVars>>

\* web.rs:175-205: sbom refs, then the raw text, or the page; an SBOM that
\* does not parse is logged and rendered without packages
SbomReply ==
    /\ web.pc = "render"
    /\ web.req.route = "sbom"
    /\ \E outcome \in (IF web.flag THEN {"ok", "db"}
                       ELSE {"ok", "unparsed", "db", "template"}) :
        IF outcome \in {"ok", "unparsed"} THEN handler_replies
        ELSE handler_fails(outcome)
    /\ UNCHANGED <<ingestVars, classifyVars, pureVars>>

\* web.rs:295-301: both artifacts are resolved
DiffResolve ==
    /\ web.pc \in {"start", "second"}
    /\ web.req.route \in DiffRoutes
    /\ LET chksum == IF web.pc = "start" THEN web.req.p1 ELSE web.req.p2
           found == resolve_artifact(web.aliases, web.rows, chksum)
       IN  \E dbok \in BOOLEAN :
            web' = IF ~dbok
                   THEN [web EXCEPT !.pc = "rejected", !.chksum = chksum,
                                    !.failure = "db", !.rej = reject_for("db")]
                   ELSE IF found.tag = "None"
                   THEN [web EXCEPT !.pc = "rejected", !.chksum = chksum,
                                    !.failure = "missing",
                                    !.rej = reject_for("missing")]
                   ELSE [web EXCEPT !.pc = IF web.pc = "start" THEN "second"
                                           ELSE "render",
                                    !.chksum = chksum, !.found = found]
    /\ UNCHANGED <<ingestVars, classifyVars, pureVars>>

\* web.rs:303-326: the files lists (decoded when sorted), the two rendered
\* tables, the patch and the page
DiffReply ==
    /\ web.pc = "render"
    /\ web.req.route \in DiffRoutes
    /\ \E outcome \in (IF web.req.route = "diff" THEN {"ok", "template"}
                       ELSE {"ok", "template", "serde"}) :
        IF outcome = "ok" THEN handler_replies ELSE handler_fails(outcome)
    /\ UNCHANGED <<ingestVars, classifyVars, pureVars>>

\* web.rs:423-435: the routes are combined and `recover(rejection)` answers
Recover ==
    /\ web.pc = "rejected"
    /\ web' = [web EXCEPT !.pc = "done",
                          !.resp = rejection(combine_routes(1, web.req.route, web.rej))]
    /\ UNCHANGED <<ingestVars, classifyVars, pureVars>>

NextWeb ==
    \/ ArtifactAlias
    \/ ArtifactGet
    \/ ArtifactReply
    \/ SbomGet
    \/ SbomReply
    \/ DiffResolve
    \/ DiffReply
    \/ Recover

SpecWeb == InitWeb /\ [][NextWeb]_vars

(*************************** claims: the read side *************************)
\* the chksum one alias hop away from the requested one
OneHop(table, chksum) ==
    IF table[chksum].tag = "Some" THEN table[chksum].val ELSE chksum

\* C9: the artifact handler performs at most one alias lookup followed by at
\* most one artifact lookup, whatever chains or cycles table aliases holds;
\* the lookup is made under the alias target, or under the requested chksum
\* when it has no alias; the handler goes on with the Artifact stored there
\* and answers not-found when there is none.
C9_OneAliasHop ==
    web.req.route = "artifact" =>
        /\ web.aliasLookups <= 1
        /\ web.artLookups <= 1
        /\ web.artLookups = 1 =>
            /\ web.aliasLookups = 1
            /\ web.resolved = OneHop(web.aliases, web.chksum)
        /\ (web.artLookups = 1 /\ web.failure # "db") =>
            IF OneHop(web.aliases, web.chksum) \in web.rows
            THEN /\ web.found = Some([chksum |-> OneHop(web.aliases, web.chksum)])
                 /\ web.failure # "missing"
            ELSE /\ web.failure = "missing"
                 /\ web.pc = "done" => web.resp.status = 404
        /\ web.pc = "done" => web.artLookups + web.aliasLookups >= 1

\* an alias chain: the requested chksum has an alias whose target has an
\* alias of its own, and the Artifact is stored one hop away
C9_Witness ==
    /\ web.req.route = "artifact"
    /\ web.pc = "done"
    /\ web.resp.status = 200
    /\ web.aliases[web.chksum].tag = "Some"
    /\ web.aliases[web.resolved].tag = "Some"
    /\ web.aliases[web.resolved].val # web.resolved
    /\ web.aliases[web.resolved].val \in web.rows
    /\ web.found = Some([chksum |-> web.resolved])

\* C10: a request to the artifact, sbom or diff route whose lookup finds
\* nothing is answered 404 "404 - file not found\n", one that fails for
\* another reason is answered 500 "server error\n", and no failure is
\* answered with another status.
C10_NotFound404Else500 ==
    web.pc = "done" =>
        /\ web.failure = "missing" =>
            web.resp = [status |-> 404, body |-> "404 - file not found\n"]
        /\ web.failure \in {"db", "template", "serde"} =>
            web.resp = [status |-> 500, body |-> "server error\n"]
        /\ web.failure = "none" <=> web.resp.status = 200
        /\ web.resp.status \in {200, 404, 500}

C10_Witness ==
    /\ web.pc = "done"
    /\ web.req.route \in DiffRoutes
    /\ web.failure = "serde"
    /\ web.resp.status = 500

(*************************** web.rs: search *******************************)
\* Every variable of the ingest, of the classifier and of the handlers at rest
InitRest ==
    /\ fname = <<>>
    /\ fclass = Unclassified
    /\ web = webIdle
    /\ rpm = <<>>
    /\ second = FALSE
    /\ mpc = "-"
    /\ sdResult = NoResult
    /\ runResult = NoResult
    /\ src = 0
    /\ stdinBuf = 0
    /\ stdinOpen = FALSE
    /\ wres = "-"
    /\ extRead = 0
    /\ extEmitted = 0
    /\ child = Idle
    /\ stdoutBuf = <<>>
    /\ cpc = "-"
    /\ nread = 0
    /\ cur = NoCur
    /\ cres = "-"
    /\ refs = {}
    /\ artifacts = <<>>
    /\ refLog = <<>>
    /\ tarLog = <<>>
    /\ waitRes = "-"
    /\ clock = 0
    /\ snap = [taken |-> FALSE, firstOk |-> FALSE, refs |-> {}, artifacts |-> <<>>]
    /\ firstFail = "-"
    /\ dropAt = NotDropped

\* web.rs:24
SEARCH_LIMIT == 150

\* the longest search string tried
MaxQLen == 3

\* the characters a search string is made of
QChars == {"a", "b", "%", "_"}

\* web.rs:219: the characters of "%_"
S_wildcards == <<"%", "_">>

\* str::contains(char)
contains(s, c) == \E i \in 1..Len(s) : s[i] = c

\* a retain that keeps '_'
retain_wildcards_percent_only(query) ==
    SelectSeq(query, LAMBDA c : c # "%")

\* web.rs:219: query.retain(|c| !"%_".contains(c))
retain_wildcards(query) ==
    SelectSeq(query, LAMBDA c : ~contains(S_wildcards, c))

\* web.rs:218-220: clone, retain, push('%')
search_query(q) == Append(retain_wildcards(q), "%")

Queries == UNION {[1..n -> QChars] : n \in 0..MaxQLen}

InitSearch ==
    /\ InitRest
    /\ srch \in {[pc |-> "start", q |-> q, query |-> <<>>, limit |-> 0,
                  failure |-> "-"] : q \in Queries}
    /\ flist = pureIdle
    /\ rend = pureIdle
    /\ stats = pureIdle

\* web.rs:218-222: the query is built and db.search(&query, SEARCH_LIMIT) is
\* called
SearchQuery ==
    /\ srch.pc = "start"
    /\ srch' = [srch EXCEPT !.pc = "searched",
                            !.query = search_query(srch.q),
                            !.limit = SEARCH_LIMIT]
    /\ UNCHANGED <<ingestVars, classifyVars, web, flist, rend, stats>>

\* web.rs:222-233: the search fails (`?`), or the page is rendered or fails
\* to render
SearchReply ==
    /\ srch.pc = "searched"
    /\ \E failure \in {"none", "db", "template"} :
        srch' = [srch EXCEPT !.pc = "done", !.failure = failure]
    /\ UNCHANGED <<ingestVars, classifyVars, web, flist, rend, stats>>

NextSearch ==
    \/ SearchQuery
    \/ SearchReply

SpecSearch == InitSearch /\ [][NextSearch]_vars

\* the positions of q that hold neither '%' nor '_'
KeptPositions(q) == {i \in 1..Len(q) : q[i] # "%" /\ q[i] # "_"}

\* the k-th kept position of q, in increasing order
KthKept(q, k) ==
    CHOOSE i \in KeptPositions(q) :
        Cardinality({j \in KeptPositions(q) : j < i}) = k - 1

\* C11: for every search string q the pattern handed to the database is q
\* with every '%' and '_' removed, the other characters kept in their order,
\* followed by exactly one '%': the pattern holds no '_', its only '%' is its
\* last character, and the search is issued with the limit 150.
C11_SearchPattern ==
    srch.pc \in {"searched", "done"} =>
        LET q == srch.q
            p == srch.query
            n == Cardinality(KeptPositions(q))
        IN  /\ Len(p) = n + 1
            /\ p[n + 1] = "%"
            /\ \A k \in 1..n : p[k] = q[KthKept(q, k)]
            /\ \A k \in 1..n : p[k] # "%"
            /\ \A k \in 1..Len(p) : p[k] # "_"
            /\ srch.limit = 150

C11_Witness ==
    /\ srch.pc = "searched"
    /\ Len(srch.q) = MaxQLen
    /\ contains(srch.q, "%")
    /\ contains(srch.q, "_")
    /\ contains(srch.q, "a")
    /\ srch.query = <<"a", "%">>

(*************************** web.rs: process_files_list, diff **************)
\* the longest files list tried
MaxFiles == 3

\* the byte of a character: Rust orders strings by their bytes
byte(c) == CASE c = "/" -> 47 [] c = "a" -> 97 [] c = "b" -> 98

\* String::partial_cmp(a, b) = Some(Less)
RECURSIVE str_lt(_, _)
str_lt(a, b) ==
    IF b = <<>> THEN FALSE
    ELSE IF a = <<>> THEN TRUE
    ELSE IF Head(a) = Head(b) THEN str_lt(Tail(a), Tail(b))
    ELSE byte(Head(a)) < byte(Head(b))

\* str::find(c): the first position of c in s, 0 when there is none
RECURSIVE find_from(_, _, _)
find_from(s, c, i) ==
    IF i > Len(s) THEN 0
    ELSE IF s[i] = c THEN i
    ELSE find_from(s, c, i + 1)

\* str::rfind(c): the last position of c in s, 0 when there is none
RECURSIVE rfind_from(_, _, _)
rfind_from(s, c, i) ==
    IF i = 0 THEN 0
    ELSE IF s[i] = c THEN i
    ELSE rfind_from(s, c, i - 1)

\* a trim that splits at the last '/'
trim_path_rsplit(path) ==
    LET i == rfind_from(path, "/", Len(path))
    IN  IF i = 0 THEN path ELSE SubSeq(path, i + 1, Len(path))

\* web.rs:274-278: path.split_once('/').map(|(_a, b)| b).unwrap_or(&path)
trim_path(path) ==
    LET i == find_from(path, "/", 1)
    IN  IF i = 0 THEN path ELSE SubSeq(path, i + 1, Len(path))

\* web.rs:273-280: every item's path is trimmed
RECURSIVE trim_all(_)
trim_all(list) ==
    IF list = <<>> THEN <<>>
    ELSE <<[Head(list) EXCEPT !.path = trim_path(Head(list).path)]>>
         \o trim_all(Tail(list))

\* one step of the stable sort: x goes behind the items that are not greater
RECURSIVE insert_by_path(_, _)
insert_by_path(list, x) ==
    IF list = <<>> THEN <<x>>
    ELSE IF str_lt(x.path, Head(list).path) THEN <<x>> \o list
    ELSE <<Head(list)>> \o insert_by_path(Tail(list), x)

\* web.rs:282: list.sort_by(|a, b| a.path.partial_cmp(&b.path).unwrap())
RECURSIVE sort_by_path(_)
sort_by_path(list) ==
    IF list = <<>> THEN <<>>
    ELSE insert_by_path(sort_by_path(SubSeq(list, 1, Len(list) - 1)),
                        list[Len(list)])

\* serde_json values of the column artifacts.files: a list of entries, or a
\* value that does not decode as Vec<Entry>
JsonList(list) == [json |-> "list", list |-> list]
JsonOther == [json |-> "other", list |-> <<>>]

FilesOk(v) == [tag |-> "Ok", val |-> v]
FilesErr == [tag |-> "Err", val |-> None]

\* web.rs:266-285
process_files_list(value, trimmed) ==
    IF value = None THEN FilesOk(None)
    ELSE IF value.val.json # "list" THEN FilesErr
    ELSE LET list == value.val.list
             list2 == IF trimmed THEN trim_all(list) ELSE list
         IN  FilesOk(Some(JsonList(sort_by_path(list2))))

\* web.rs:303-306: the files of an artifact as diff hands them to
\* render_archive
diff_files(value, sorted, trimmed) ==
    IF sorted THEN process_files_list(value, trimmed) ELSE FilesOk(value)

\* web.rs:389-415: the toggles of the three routes
route_sorted(route) == route \in {"diff-sorted", "diff-sorted-trimmed"}
route_trimmed(route) == route = "diff-sorted-trimmed"

P_a == <<"a">>
P_b_a == <<"b", "/", "a">>
P_a_b == <<"a", "/", "b">>
P_b_a_a == <<"b", "/", "a", "/", "a">>
Paths == {P_a, P_b_a, P_a_b, P_b_a_a}

Symbolic(t) == [kind |-> "Symbolic", target |-> t]
Hard(t) == [kind |-> "Hard", target |-> t]

\* ingest::tar::Entry values: a regular file with its digest, a symlink
FileEntries ==
    {[path |-> p, digest |-> Some(<<"1">>), links_to |-> None] : p \in Paths}
    \cup {[path |-> p, digest |-> None, links_to |-> Some(Symbolic(P_a))] : p \in Paths}

FilesValues ==
    {None, Some(JsonOther)}
    \cup {Some(JsonList(l)) : l \in UNION {[1..n -> FileEntries] : n \in 0..MaxFiles}}

InitFiles ==
    /\ InitRest
    /\ srch = pureIdle
    /\ rend = pureIdle
    /\ stats = pureIdle
    /\ flist \in {[pc |-> "start", route |-> r, files |-> v, out |-> FilesOk(None)] :
                    r \in DiffRoutes, v \in FilesValues}

\* web.rs:303-306 for one of the two artifacts; the other one goes through the
\* same call
DiffFiles ==
    /\ flist.pc = "start"
    /\ flist' = [flist EXCEPT !.pc = "done",
                              !.out = diff_files(flist.files,
                                                 route_sorted(flist.route),
                                                 route_trimmed(flist.route))]
    /\ UNCHANGED <<ingestVars, classifyVars, web, srch, rend, stats>>

NextFiles == DiffFiles

SpecFiles == InitFiles /\ [][NextFiles]_vars

\* t is p without its leading component: everything up to and including the
\* first '/' is gone, and a path without '/' is kept
IsTrimOf(t, p) ==
    \/ /\ \A i \in 1..Len(p) : p[i] # "/"
       /\ t = p
    \/ \E i \in 1..Len(p) :
        /\ p[i] = "/"
        /\ \A j \in 1..(i - 1) : p[j] # "/"
        /\ t = SubSeq(p, i + 1, Len(p))

\* a is not after b in byte order
PathLeq(a, b) ==
    \E k \in 1..(Len(a) + 1) :
        /\ \A j \in 1..(k - 1) : j <= Len(b) /\ a[j] = b[j]
        /\ \/ k = Len(a) + 1
           \/ k <= Len(b) /\ byte(a[k]) < byte(b[k])

Ascending(list) ==
    \A i, j \in 1..Len(list) : i < j => PathLeq(list[i].path, list[j].path)

Bijections(n) == {f \in [1..n -> 1..n] : \A i, j \in 1..n : f[i] = f[j] => i = j}

\* out holds the entries of in, each once, with digest and links_to as they
\* were and the path as it was (trimmed = FALSE) or trimmed
PermutationOf(out, in, trimmed) ==
    /\ Len(out) = Len(in)
    /\ \E f \in Bijections(Len(in)) :
        \A i \in 1..Len(in) :
            /\ out[f[i]].digest = in[i].digest
            /\ out[f[i]].links_to = in[i].links_to
            /\ IF trimmed THEN IsTrimOf(out[f[i]].path, in[i].path)
               ELSE out[f[i]].path = in[i].path

\* C12: with `sorted` the files table handed to the renderer is a permutation
\* of the artifact's entries in ascending path order; with `trimmed` every
\* path first loses its leading component (a path without '/' is kept) and
\* the entries are then ordered by the trimmed path; with neither toggle the
\* stored list is passed unchanged. Digest and links_to of every entry are
\* unchanged in all three cases.
C12_DiffFiles ==
    (flist.pc = "done" /\ flist.files # None /\ flist.files.val.json = "list") =>
        LET in == flist.files.val.list
        IN  /\ flist.out.tag = "Ok"
            /\ flist.out.val # None
            /\ flist.out.val.val.json = "list"
            /\ LET out == flist.out.val.val.list
               IN  CASE flist.route = "diff" -> out = in
                     [] flist.route = "diff-sorted" ->
                            PermutationOf(out, in, FALSE) /\ Ascending(out)
                     [] flist.route = "diff-sorted-trimmed" ->
                            PermutationOf(out, in, TRUE) /\ Ascending(out)

C12_Witness ==
    /\ flist.pc = "done"
    /\ flist.route = "diff-sorted-trimmed"
    /\ flist.files # None
    /\ flist.files.val.json = "list"
    /\ Len(flist.files.val.list) = MaxFiles
    /\ flist.files.val.list[1].path = P_b_a_a
    /\ flist.files.val.list[2].path = P_a_b
    /\ flist.files.val.list[3] = [path |-> P_a, digest |-> None,
                                  links_to |-> Some(Symbolic(P_a))]
    /\ flist.out.tag = "Ok"
    /\ flist.out.val.val.list[1].links_to = Some(Symbolic(P_a))
    /\ flist.out.val.val.list[2].path = <<"a", "/", "a">>
    /\ flist.out.val.val.list[3].path = <<"b">>

(*************************** web.rs: render_archive ************************)
\* The template archive.txt.hbs is not part of the sources at hand: what it
\* renders is taken from the description of the archive table and from the
\* expected texts of test_render_archive, test_render_archive_symlink and
\* test_render_archive_hardlink (web.rs:448-567).

\* the width of a digest line: "sha256:" and 64 hex digits
DigestWidth == 71

Spaces(n) == [i \in 1..n |-> " "]

\* a pad_right that pads nothing
pad_right_none(v, width) == v

\* web.rs:46-48: format!("{:<width$}", v)
pad_right(v, width) ==
    IF Len(v) >= width THEN v ELSE v \o Spaces(width - Len(v))

S_sha256 == <<"s", "h", "a", "2", "5", "6", ":">>
S_arrow == <<" ", "-", ">", " ">>
S_link_to == <<" ", "l", "i", "n", "k", " ", "t", "o", " ">>
NL == "\n"

\* a digest line as the ingest stores it
Digest1 == S_sha256 \o [i \in 1..(DigestWidth - Len(S_sha256)) |-> "4"]

\* the text a link adds behind the path
link_suffix(links_to) ==
    IF links_to = None THEN <<>>
    ELSE IF links_to.val.kind = "Symbolic" THEN S_arrow \o links_to.val.target
    ELSE S_link_to \o links_to.val.target

\* one line of the table
render_entry(e) ==
    pad_right(IF e.digest = None THEN <<>> ELSE e.digest.val, DigestWidth)
    \o <<" ", " ">> \o e.path \o link_suffix(e.links_to) \o <<NL>>

\* the table: one line per entry, in list order
RECURSIVE render_files(_)
render_files(list) ==
    IF list = <<>> THEN <<>>
    ELSE render_entry(Head(list)) \o render_files(Tail(list))

\* the entries render_archive is tried on: a directory, a regular file, a
\* symlink and a hard link, under two paths
RenderPaths == {P_a, P_b_a}
RenderEntries ==
    {[path |-> p, digest |-> None, links_to |-> None] : p \in RenderPaths}
    \cup {[path |-> p, digest |-> Some(Digest1), links_to |-> None] : p \in RenderPaths}
    \cup {[path |-> p, digest |-> None, links_to |-> Some(Symbolic(P_a))] : p \in RenderPaths}
    \cup {[path |-> p, digest |-> None, links_to |-> Some(Hard(P_b_a))] : p \in RenderPaths}

RenderLists == UNION {[1..n -> RenderEntries] : n \in 0..MaxFiles}

InitRender ==
    /\ InitRest
    /\ srch = pureIdle
    /\ flist = pureIdle
    /\ rend \in {[pc |-> "start", files |-> l, ok |-> FALSE, out |-> <<>>] :
                    l \in RenderLists}
    /\ stats = pureIdle

\* web.rs:68-71: the template is rendered, or the rendering fails
RenderArchive ==
    /\ rend.pc = "start"
    /\ \E ok \in BOOLEAN :
        rend' = [rend EXCEPT !.pc = "done", !.ok = ok,
                             !.out = IF ok THEN render_files(rend.files) ELSE <<>>]
    /\ UNCHANGED <<ingestVars, classifyVars, web, srch, flist, stats>>

NextRender == RenderArchive

SpecRender == InitRender /\ [][NextRender]_vars

\* the positions of the newlines of a text
NewlinesOf(text) == {i \in 1..Len(text) : text[i] = NL}

\* the position of the k-th newline, 0 for k = 0
KthNewline(text, k) ==
    IF k = 0 THEN 0
    ELSE CHOOSE i \in NewlinesOf(text) :
            Cardinality({j \in NewlinesOf(text) : j < i}) = k - 1

\* the k-th line of a text, without its newline
LineOf(text, k) ==
    SubSeq(text, KthNewline(text, k - 1) + 1, KthNewline(text, k) - 1)

\* the column the path of every line starts at
PathColumn == DigestWidth + 3

\* C13: render_archive emits exactly one newline-terminated line per entry,
\* in list order, with the path always starting at the same column: a regular
\* file's line is its 'sha256:' digest, two spaces and the path; a directory's
\* or link's line is a blank digest column of the same total width and the
\* path; a symlink appends ' -> target' and a hard link ' link to target'.
C13_RenderArchive ==
    (rend.pc = "done" /\ rend.ok) =>
        LET text == rend.out
            list == rend.files
        IN  /\ Cardinality(NewlinesOf(text)) = Len(list)
            /\ text # <<>> => text[Len(text)] = NL
            /\ \A k \in 1..Len(list) :
                LET line == LineOf(text, k)
                    e == list[k]
                    column == SubSeq(line, 1, PathColumn - 1)
                    rest == SubSeq(line, PathColumn + Len(e.path), Len(line))
                IN  /\ Len(line) >= PathColumn - 1 + Len(e.path)
                    /\ SubSeq(line, PathColumn, PathColumn - 1 + Len(e.path)) = e.path
                    /\ IF e.digest # None
                       THEN /\ column = e.digest.val \o <<" ", " ">>
                            /\ starts_with(column, S_sha256)
                       ELSE \A i \in 1..(PathColumn - 1) : column[i] = " "
                    /\ CASE e.links_to = None -> rest = <<>>
                         [] e.links_to # None /\ e.links_to.val.kind = "Symbolic" ->
                                rest = S_arrow \o e.links_to.val.target
                         [] e.links_to # None /\ e.links_to.val.kind = "Hard" ->
                                rest = S_link_to \o e.links_to.val.target

C13_Witness ==
    /\ rend.pc = "done"
    /\ rend.ok
    /\ Len(rend.files) = MaxFiles
    /\ rend.files[1] = [path |-> P_b_a, digest |-> Some(Digest1), links_to |-> None]
    /\ rend.files[2] = [path |-> P_a, digest |-> None, links_to |-> Some(Symbolic(P_a))]
    /\ rend.files[3] = [path |-> P_a, digest |-> None, links_to |-> Some(Hard(P_b_a))]
    /\ LineOf(rend.out, 2) = Spaces(73) \o P_a \o S_arrow \o P_a
    /\ Len(LineOf(rend.out, 1)) = 76

(*************************** claims: joining, cancellation *****************)
\* the extractor was spawned: the three activities of the level exist
Spawned == child # Idle

\* C14: stream_data never returns, on success or on an error path, before all
\* three activities have been joined: the writer has finished, the consumer
\* task has finished and the extractor's exit has been awaited.
C14_ReturnsAfterAllJoined ==
    (Returned /\ Spawned) =>
        /\ wres \in {"Ok", "Err"}
        /\ cres \notin {"-", "running"}
        /\ waitRes # "-"

\* the activity an error of stream_data comes from
ActivityOf(result) ==
    IF result.origin \in {"wait", "child"} THEN "child" ELSE result.origin

NextLive ==
    \/ RunSetupFail
    \/ SpawnFail
    \/ Spawn
    \/ Join
    \/ Wait
    \/ RunReturn
    \/ WriterCopy
    \/ WriterEof
    \/ WriterFail
    \/ ExtRead
    \/ ExtWrite
    \/ ExtFinish
    \/ ExtBrokenPipe
    \/ ExtTruncated
    \/ ExtCrash
    \/ ConsumerTake
    \/ ConsumerEntryErr
    \/ ConsumerEnd
    \/ ConsumerChksum
    \/ ConsumerInsertRef
    \/ ConsumerPanic

\* The runtime polls every future and task that can make progress and the
\* extractor is scheduled by the system; a write to a pipe whose reader is
\* gone fails. Nothing forces a read error of the source, a crash of the
\* extractor or a panic of the consumer.
Fairness ==
    /\ WF_vars(Join)
    /\ WF_vars(Wait)
    /\ WF_vars(WriterCopy)
    /\ WF_vars(WriterEof)
    /\ WF_vars(WriterFail /\ child.st = "exited")
    /\ WF_vars(ExtRead)
    /\ WF_vars(ExtWrite)
    /\ WF_vars(ExtFinish)
    /\ WF_vars(ExtBrokenPipe)
    /\ WF_vars(ExtTruncated)
    /\ WF_vars(ConsumerTake \/ ConsumerEntryErr)
    /\ WF_vars(ConsumerEnd)
    /\ WF_vars(ConsumerChksum)
    /\ WF_vars(ConsumerInsertRef)

SpecLive == Init /\ [][NextLive]_vars /\ Fairness

\* C16: the level cannot deadlock: under fair scheduling every run of
\* stream_data eventually returns, in particular when the consumer returns
\* early with an error while the writer still has bytes to write and the
\* stdin pipe is full.
C16_EveryRunReturns == (mpc \in {"join", "wait"}) ~> Returned

C16_Witness ==
    /\ mpc = "join"
    /\ cres \in {"Io", "Db", "InputMalformed"}
    /\ wres = "running"
    /\ src > 0
    /\ stdinBuf = PipeCap
    /\ child.st = "running"

\* C17: the writer closes the extractor's stdin when its copy ends, on
\* success and on failure alike: stdin is closed no later than the moment the
\* writer completes, and on a copy that does not fail it is never closed
\* while source bytes remain.
C17_StdinClosedWithWriter ==
    Spawned =>
        /\ wres \in {"Ok", "Err"} => ~stdinOpen
        /\ wres = "running" => stdinOpen
        /\ (~stdinOpen /\ wres # "Err") => (wres = "Ok" /\ src = 0)

C17_Witness ==
    /\ mpc = "join"
    /\ wres = "Err"
    /\ src > 0
    /\ ~stdinOpen
    /\ child.st = "running"

(*************************** the run is dropped ****************************)
\* rpm.rs:97-122: the future of run and stream_data is dropped at one of its
\* awaits (the join, the wait). The writer future and the stdin handle go
\* with it, so stdin is closed; the Child is dropped without kill_on_drop, so
\* the extractor runs on and nothing waits for it; the JoinHandle of the
\* consumer task is dropped, which detaches the task: it runs on, unless the
\* whole runtime is shutting down and cancels it too.
Drop ==
    /\ mpc \in {"join", "wait"}
    /\ mpc' = "dropped"
    /\ dropAt' = Len(refLog)
    /\ stdinOpen' = FALSE
    /\ wres' = IF wres = "running" THEN "dropped" ELSE wres
    /\ \E detached \in BOOLEAN :
        IF detached \/ cres # "running"
        THEN UNCHANGED <<cpc, cres>>
        ELSE cpc' = "done" /\ cres' = "cancelled"
    /\ UNCHANGED <<rpm, second, sdResult, runResult, waitRes, snap, firstFail,
                   src, nread, cur, storeVars,
                   stdinBuf, extRead, extEmitted, child, stdoutBuf, otherVars>>

NextDrop ==
    \/ RunSetupFail
    \/ SpawnFail
    \/ Spawn
    \/ Join
    \/ Wait
    \/ RunReturn
    \/ Drop
    \/ WriterCopy
    \/ WriterEof
    \/ WriterFail
    \/ ExtRead
    \/ ExtWrite
    \/ ExtFinish
    \/ ExtBrokenPipe
    \/ ExtTruncated
    \/ ExtCrash
    \/ ConsumerTake
    \/ ConsumerEntryErr
    \/ ConsumerEnd
    \/ ConsumerChksum
    \/ ConsumerInsertRef
    \/ ConsumerPanic

SpecDrop == Init /\ [][NextDrop]_vars

\* C18: when the top-level ingest task is dropped while a level is running,
\* the level propagates the cancellation: stdin is closed and the consumer,
\* which owns the database handle, stops, so that no Ref is inserted after
\* the drop.
C18_NoRefAfterDrop ==
    mpc = "dropped" =>
        /\ ~stdinOpen
        /\ Len(refLog) = dropAt

\* the part of C18 about stdin alone
C18_StdinClosedByDrop == mpc = "dropped" => ~stdinOpen

\* the part of C18 about the extractor: its exit is awaited
C18_ExitAwaitedAfterDrop ==
    (mpc = "dropped" /\ child.st = "exited") => waitRes # "-"

(*************************** claims: read_routine **************************)
\* the entry positions of a log are strictly increasing
Increasing(log) == \A i, j \in 1..Len(log) : i < j => log[i].idx < log[j].idx

\* C19: entries are processed strictly sequentially in stream order: the
\* inner ingest of entry i and its insert_ref are both complete before any
\* processing of entry i+1 begins, so Refs are inserted in archive order and
\* no two sibling archives are ingested concurrently.
C19_Sequential ==
    Spawned =>
        /\ Increasing(refLog)
        /\ Increasing(tarLog)
        /\ \A k \in 1..Len(refLog) :
            /\ refLog[k].idx <= nread
            /\ refLog[k].ref.filename = Some(rpm[refLog[k].idx].name)
        /\ \A k \in 1..Len(tarLog) :
            /\ tarLog[k].idx <= nread
            /\ tarLog[k].idx < nread => RefsOf(tarLog[k].idx) # {}
        /\ cpc = "chksum" =>
            /\ cur.e = rpm[nread]
            /\ \A k \in 1..Len(tarLog) : tarLog[k].idx < nread
            /\ \A k \in 1..Len(refLog) : refLog[k].idx < nread
        /\ cpc = "insert" =>
            /\ cur.e = rpm[nread]
            /\ \A k \in 1..Len(refLog) : refLog[k].idx < nread

C19_Witness ==
    /\ cres = "Ok"
    /\ Len(rpm) = MaxEntries
    /\ Len(tarLog) = MaxEntries
    /\ Len(refLog) = MaxEntries
    /\ refLog[1].idx = 1
    /\ refLog[MaxEntries].idx = MaxEntries

\* the errors read_routine returns
ConsumerErrors == {"InputMalformed", "Io", "Db"}

\* what read_routine has done is what it had done when it returned
ConsumerFrozen ==
    (cres \in ConsumerErrors /\ cres' = cres) =>
        UNCHANGED <<nread, cur, cpc, refLog, tarLog, refs, artifacts>>

\* C20: a Ref is inserted for an entry only after the inner ingest or the
\* hash of that entry has completed successfully: if reading the header, the
\* inner ingest, the hashing or insert_ref fails for entry i, read_routine
\* returns that error at once, no Ref is inserted for entry i by a failed
\* ingest or hash, and no entry after i is processed.
C20_RefOnlyAfterIngest ==
    /\ [](Spawned =>
            /\ \A k \in 1..Len(refLog) :
                match_arm(archive_w_compression(rpm[refLog[k].idx].name)) = "recurse" =>
                    \E t \in TarsOf(refLog[k].idx) :
                        refLog[k].ref.chksum = tarLog[t].chksum
            /\ cres \in ConsumerErrors =>
                /\ cpc = "done"
                /\ \A k \in 1..Len(refLog) : refLog[k].idx <= nread
                /\ \A k \in 1..Len(tarLog) : tarLog[k].idx <= nread
            /\ (cres = "Io" /\ cur # NoCur) =>
                /\ RefsOf(nread) = {}
                /\ TarsOf(nread) = {}
            /\ cres = "Db" => RefsOf(nread) = {})
    /\ [][ConsumerFrozen]_vars

C20_Witness ==
    /\ cres = "Io"
    /\ cur # NoCur
    /\ nread = 1
    /\ Len(rpm) = MaxEntries
    /\ stdoutBuf # <<>>
    /\ refLog = <<>>
    /\ Returned

(*************************** claims: the precedence of errors **************)
\* C21: when more than one of the three activities fails in a run, the error
\* stream_data returns follows a fixed precedence, whichever failure came
\* first: the writer's copy error before everything else (and then the
\* extractor's exit is not awaited), otherwise a failed wait or a non-zero
\* exit (ChildExit) before the consumer's error, and the consumer's error or
\* the task-join error only when the writer succeeded and the extractor
\* exited with status 0.
C21_FixedPrecedence ==
    (Returned /\ Spawned) =>
        /\ wres = "Err" =>
            /\ sdResult = Err("Io", "writer")
            /\ waitRes = "-"
        /\ (wres = "Ok" /\ waitRes = "Err") => sdResult = Err("Io", "wait")
        /\ (wres = "Ok" /\ waitRes = "Ok" /\ child.status # 0) =>
            sdResult = ChildExit(child.status)
        /\ (wres = "Ok" /\ waitRes = "Ok" /\ child.status = 0 /\ cres # "Ok") =>
            /\ sdResult.origin = "consumer"
            /\ sdResult.tag = IF cres = "JoinError" THEN "Join" ELSE cres
        /\ sdResult.origin = "consumer" =>
            /\ wres = "Ok"
            /\ waitRes = "Ok"
            /\ child.status = 0

C21_Witness ==
    /\ Returned
    /\ firstFail = "consumer"
    /\ cres = "Db"
    /\ wres = "Ok"
    /\ waitRes = "Ok"
    /\ child.status # 0
    /\ sdResult = ChildExit(child.status)

(*************************** web.rs: stats *********************************)
\* the most rows a stats query returns
MaxRows == 2

K_import_dates == "import_dates"
K_pending_tasks == "pending_tasks"
StatsKeys == {K_import_dates, K_pending_tasks}

\* what a spawned query task ends with: its rows, a database error, a panic
RowsOk(rows) == [tag |-> "Ok", rows |-> rows]
RowsErr == [tag |-> "Err", rows |-> <<>>]
RowsPanic == [tag |-> "Panic", rows |-> <<>>]

DateRows == UNION {[1..n -> {<<"d", v>> : v \in 1..2}] : n \in 0..MaxRows}
TaskRows == {<<>>, <<<<"t", 3>>>>}

\* web.rs:254: values.iter().map(|(_, v)| v).sum()
RECURSIVE sum_values(_)
sum_values(values) ==
    IF values = <<>> THEN 0 ELSE Head(values)[2] + sum_values(Tail(values))

\* web.rs:246: HashMap::new()
NoData == [import_dates |-> None, pending_tasks |-> None, total_artifacts |-> None]

\* a row handler that sums the values of whatever key it is given
stats_row_sum_always(data, key, values) ==
    [data EXCEPT !.total_artifacts = Some(<<<<"", sum_values(values)>>>>),
                 ![key] = Some(values)]

\* web.rs:252-258: the sum for import_dates, then the key itself
stats_row(data, key, values) ==
    LET summed == IF key = K_import_dates
                  THEN [data EXCEPT !.total_artifacts =
                                        Some(<<<<"", sum_values(values)>>>>)]
                  ELSE data
    IN  [summed EXCEPT ![key] = Some(values)]

InitStats ==
    /\ InitRest
    /\ srch = pureIdle
    /\ flist = pureIdle
    /\ rend = pureIdle
    /\ stats \in {[pc |-> "start",
                   outcome |-> [k \in StatsKeys |-> IF k = K_import_dates THEN d ELSE t],
                   task |-> [k \in StatsKeys |-> "-"],
                   ready |-> <<>>, order |-> <<>>, data |-> NoData,
                   failure |-> "-"] :
                    d \in {RowsErr, RowsPanic} \cup {RowsOk(r) : r \in DateRows},
                    t \in {RowsErr, RowsPanic} \cup {RowsOk(r) : r \in TaskRows}}

\* web.rs:240-246: both queries are spawned on the JoinSet
StatsSpawn ==
    /\ stats.pc = "start"
    /\ stats' = [stats EXCEPT !.pc = "loop",
                              !.task = [k \in StatsKeys |-> "running"]]
    /\ UNCHANGED <<ingestVars, classifyVars, web, srch, flist, rend>>

\* web.rs:243, 245: a spawned query ends and its task becomes ready to be
\* joined; `order` keeps the order the tasks ended in
StatsQueryEnds ==
    /\ \E k \in StatsKeys :
        /\ stats.task[k] = "running"
        /\ stats' = [stats EXCEPT !.task[k] = "finished",
                                  !.ready = Append(@, k),
                                  !.order = Append(@, k)]
    /\ UNCHANGED <<ingestVars, classifyVars, web, srch, flist, rend>>

\* web.rs:247-258: join_next yields the task that ended first; a JoinError is
\* skipped, a database error is returned (the JoinSet is dropped, which aborts
\* a task still running), rows go into data
StatsJoinNext ==
    /\ stats.pc = "loop"
    /\ stats.ready # <<>>
    /\ LET key == Head(stats.ready)
           row == stats.outcome[key]
           joined == [stats EXCEPT !.ready = Tail(@), !.task[key] = "joined"]
       IN  stats' =
             IF row.tag = "Panic" THEN joined
             ELSE IF row.tag = "Err"
             THEN [joined EXCEPT !.pc = "done", !.failure = "db",
                       !.task = [k \in StatsKeys |->
                                    IF joined.task[k] = "running" THEN "aborted"
                                    ELSE joined.task[k]]]
             ELSE [joined EXCEPT !.data = stats_row(@, key, row.rows)]
    /\ UNCHANGED <<ingestVars, classifyVars, web, srch, flist, rend>>

\* web.rs:247, 260-263: the set is empty; the page is rendered or fails to
\* render
StatsRender ==
    /\ stats.pc = "loop"
    /\ \A k \in StatsKeys : stats.task[k] = "joined"
    /\ \E ok \in BOOLEAN :
        stats' = [stats EXCEPT !.pc = "done",
                               !.failure = IF ok THEN "none" ELSE "template"]
    /\ UNCHANGED <<ingestVars, classifyVars, web, srch, flist, rend>>

NextStats ==
    \/ StatsSpawn
    \/ StatsQueryEnds
    \/ StatsJoinNext
    \/ StatsRender

SpecStats == InitStats /\ [][NextStats]_vars

\* the sum of the counts of rows, position by position
SumOfCounts(rows) ==
    LET upto[i \in 0..Len(rows)] == IF i = 0 THEN 0 ELSE upto[i - 1] + rows[i][2]
    IN  upto[Len(rows)]

\* C22: the stats handler runs the import-dates query and the pending-tasks
\* query concurrently and its result does not depend on which ends first:
\* whenever both succeed the data rendered holds import_dates, pending_tasks
\* and a total_artifacts entry equal to the sum of all import_dates values;
\* whenever either returns a database error the request fails, whichever
\* query completed first.
C22_StatsOrderIndependent ==
    stats.pc = "done" =>
        LET d == stats.outcome[K_import_dates]
            t == stats.outcome[K_pending_tasks]
        IN  /\ (d.tag = "Ok" /\ t.tag = "Ok") =>
                /\ stats.failure \in {"none", "template"}
                /\ stats.data.import_dates = Some(d.rows)
                /\ stats.data.pending_tasks = Some(t.rows)
                /\ stats.data.total_artifacts = Some(<<<<"", SumOfCounts(d.rows)>>>>)
            /\ (d.tag = "Err" \/ t.tag = "Err") => stats.failure = "db"

C22_Witness ==
    /\ stats.pc = "done"
    /\ stats.failure = "none"
    /\ stats.order = <<K_import_dates, K_pending_tasks>>
    /\ stats.outcome[K_import_dates] = RowsOk(<<<<"d", 1>>, <<"d", 2>>>>)
    /\ stats.outcome[K_pending_tasks] = RowsOk(<<<<"t", 3>>>>)
    /\ stats.data.total_artifacts = Some(<<<<"", 3>>>>)

====
